---- MODULE Spec2Model ----
(***************************************************************************)
(* Student Management System (src/app.py): the students table of           *)
(* students.db, the connection each helper opens on it, the session flag   *)
(* confirm_clear, and the handlers of the "Manage Students" tab.           *)
(*                                                                         *)
(* The table is the sequence of its rows in rowid order.  SQLite's         *)
(* constraints (UNIQUE, NOT NULL, AUTOINCREMENT) and its write lock are    *)
(* part of the model because the helpers' results depend on them.          *)
(***************************************************************************)
EXTENDS Integers, Sequences, FiniteSets, TLC

VARIABLES students, sqlite_sequence, openConns, lockHeld, confirm_clear,
          assigned, last

vars == <<students, sqlite_sequence, openConns, lockHeld, confirm_clear,
          assigned, last>>

----------------------------------------------------------------------------
(* Bounds *)

MaxId == 2         \* inserts stop once sqlite_sequence reaches this value
MaxBatch == 2      \* longest uploaded JSON list
MaxOpenConns == 2  \* most connections left open at once

----------------------------------------------------------------------------
(* Values *)

None == "<None>"          \* Python None, JSON null, SQL NULL
Absent == "<absent>"      \* key not present in a JSON object

StudentIds == {"S1", "S2"}

\* A GPA is whole + hi/10^5 + lo/10^11: eleven decimal places, kept in two
\* parts so that every number stays within TLC's integer range.
HiDigits == 5
LoDigits == 6
HiScale == 10 ^ HiDigits
LoScale == 10 ^ LoDigits
Gpa(w, h, l) == [whole |-> w, hi |-> h, lo |-> l]
GpaZero == Gpa(0, 0, 0)                 \* 0.0
GpaPi == Gpa(3, 14159, 265359)          \* 3.14159265359

Row(i, n, s, c, g, e) ==
    [id |-> i, name |-> n, student_id |-> s, course |-> c, gpa |-> g,
     email |-> e]

Sids(rows) == {rows[i].student_id : i \in DOMAIN rows}
Ids(rows) == {rows[i].id : i \in DOMAIN rows}

\* The visible columns of a row, without the surrogate id.
Fields(r) == [name |-> r.name, student_id |-> r.student_id,
              course |-> r.course, gpa |-> r.gpa, email |-> r.email]
FieldsOf(rows) == [i \in DOMAIN rows |-> Fields(rows[i])]

SetMax(S) == IF S = {} THEN 0 ELSE CHOOSE m \in S : \A x \in S : x <= m

----------------------------------------------------------------------------
(* Messages *)

AddedMsg == "Student added successfully!"
DupMsg == "Error: Student ID already exists."
UpdatedMsg == "Student updated successfully!"
DeletedMsg == "Student deleted successfully!"
LockedMsg == "Error: database is locked"
UniqueMsg == "Error: UNIQUE constraint failed: students.student_id"
RequiredMsg == "Name and Student ID are required."
ClearedMsg == "All data deleted successfully."
InvalidFormatMsg == "Invalid JSON format. Expected a list of student objects."
ParseErrorMsg == "Error parsing JSON"

----------------------------------------------------------------------------
(* Record Store helpers.  Each returns the table and sequence after the    *)
(* call, the (success, message) pair, and what became of the connection it *)
(* opened: "closed" by conn.close(), or "open" when an exception skipped   *)
(* conn.close(); holdsLock says that the open connection still has the     *)
(* write transaction of the failed statement.                              *)

Outcome(rows, seq, ok, msg, conn, holdsLock, newId) ==
    [rows |-> rows, seq |-> seq, ok |-> ok, msg |-> msg, conn |-> conn,
     holdsLock |-> holdsLock, newId |-> newId]

\* A plain INTEGER PRIMARY KEY: one more than the largest rowid now stored.
NextRowid_reuse(rows, seq) == SetMax(Ids(rows)) + 1

\* AUTOINCREMENT: one more than the largest rowid ever used in the table.
NextRowid(rows, seq) == SetMax(Ids(rows) \cup {seq}) + 1

\* INSERT: OperationalError when another connection holds the write lock
\* (except Exception), IntegrityError for a NULL name or student_id and for
\* a student_id already stored (except sqlite3.IntegrityError), else the
\* row is appended, committed and the connection closed.
add_student(rows, seq, locked, name, student_id, course, gpa, email) ==
    IF locked
    THEN Outcome(rows, seq, FALSE, LockedMsg, "open", FALSE, 0)
    ELSE IF name = None \/ student_id = None \/ student_id \in Sids(rows)
    THEN Outcome(rows, seq, FALSE, DupMsg, "open", TRUE, 0)
    ELSE LET id == NextRowid(rows, seq)
         IN Outcome(Append(rows, Row(id, name, student_id, course, gpa, email)),
                    id, TRUE, AddedMsg, "closed", FALSE, id)

\* UPDATE ... WHERE student_id=?: every matching row gets the five new
\* values; the id column is not in the SET list.
UpdatedRows(rows, original_student_id, name, student_id, course, gpa, email) ==
    [i \in DOMAIN rows |->
        IF rows[i].student_id = original_student_id
        THEN Row(rows[i].id, name, student_id, course, gpa, email)
        ELSE rows[i]]

\* The column without its UNIQUE constraint.
update_student_unchecked(rows, seq, locked, original_student_id, name, student_id, course, gpa, email) ==
    IF locked
    THEN Outcome(rows, seq, FALSE, LockedMsg, "open", FALSE, 0)
    ELSE Outcome(UpdatedRows(rows, original_student_id, name, student_id,
                             course, gpa, email),
                 seq, TRUE, UpdatedMsg, "closed", FALSE, 0)

\* The handler reporting success whatever the statement did.
update_student_swallow(rows, seq, locked, original_student_id, name, student_id, course, gpa, email) ==
    LET new == UpdatedRows(rows, original_student_id, name, student_id,
                           course, gpa, email)
    IN IF locked \/ Cardinality(Sids(new)) # Len(new)
       THEN Outcome(rows, seq, TRUE, UpdatedMsg, "open", ~locked, 0)
       ELSE Outcome(new, seq, TRUE, UpdatedMsg, "closed", FALSE, 0)

update_student(rows, seq, locked, original_student_id, name, student_id, course, gpa, email) ==
    LET new == UpdatedRows(rows, original_student_id, name, student_id,
                           course, gpa, email)
    IN IF locked
       THEN Outcome(rows, seq, FALSE, LockedMsg, "open", FALSE, 0)
       ELSE IF Cardinality(Sids(new)) # Len(new)
       THEN Outcome(rows, seq, FALSE, UniqueMsg, "open", TRUE, 0)
       ELSE Outcome(new, seq, TRUE, UpdatedMsg, "closed", FALSE, 0)

\* DELETE ... WHERE student_id=?: a NULL parameter matches no row.
RowsWithout(rows, student_id) ==
    SelectSeq(rows, LAMBDA r : student_id = None \/ r.student_id # student_id)

delete_student(rows, seq, locked, student_id) ==
    IF locked
    THEN Outcome(rows, seq, FALSE, LockedMsg, "open", FALSE, 0)
    ELSE Outcome(RowsWithout(rows, student_id), seq, TRUE, DeletedMsg,
                 "closed", FALSE, 0)

\* DELETE FROM students: the rows go, the sqlite_sequence entry stays.
clear_all(rows, seq, locked) ==
    IF locked
    THEN Outcome(rows, seq, FALSE, LockedMsg, "open", FALSE, 0)
    ELSE Outcome(<<>>, seq, TRUE, ClearedMsg, "closed", FALSE, 0)

\* SELECT * FROM students: a read, which a pending write lock does not block.
get_all_students(rows) == rows

----------------------------------------------------------------------------
(* Import/Export *)

\* A decoded JSON value of the uploaded list: an object with any of the
\* keys (a missing key is Absent, a missing gpa GpaAbsent, a missing id 0),
\* or a number.
GpaAbsent == Gpa(-1, 0, 0)
JsonObject(i, n, s, c, g, e) ==
    [kind |-> "object", id |-> i, name |-> n, student_id |-> s,
     course |-> c, gpa |-> g, email |-> e]
JsonNumber ==
    [kind |-> "number", id |-> 0, name |-> Absent, student_id |-> Absent,
     course |-> Absent, gpa |-> GpaAbsent, email |-> Absent]

\* pandas writes a float with double_precision = 10 decimal places: the
\* decimals after the tenth are rounded away (half goes up when the kept
\* part is odd or zero), with the carry running into the higher digits.
DoublePrecision == 10
EncodeDouble(g) ==
    LET unit == 10 ^ (HiDigits + LoDigits - DoublePrecision)
        d == g.lo % unit
        kept == g.lo \div unit
        up == 2 * d > unit
              \/ (2 * d = unit /\ ((g.hi = 0 /\ kept = 0) \/ kept % 2 = 1))
        lo2 == (kept + (IF up THEN 1 ELSE 0)) * unit
        hi2 == IF lo2 >= LoScale THEN g.hi + 1 ELSE g.hi
    IN Gpa(IF hi2 >= HiScale THEN g.whole + 1 ELSE g.whole,
           IF hi2 >= HiScale THEN 0 ELSE hi2,
           IF lo2 >= LoScale THEN 0 ELSE lo2)

\* df.to_json(orient='records'): one object per row, all six columns.
to_json(rows) ==
    [i \in DOMAIN rows |->
        JsonObject(rows[i].id, rows[i].name, rows[i].student_id,
                   rows[i].course, EncodeDouble(rows[i].gpa), rows[i].email)]

\* student.get(key, default)
Get(value, default) == IF value = Absent THEN default ELSE value
GetGpa(value, default) == IF value = GpaAbsent THEN default ELSE value

\* The state the import loop carries from one element to the next.
\* dup_keys are the student ids the errors list reports with DupMsg.
ImportState(rows, seq, open, lock, sc, ec, dups, ids, aborted) ==
    [rows |-> rows, seq |-> seq, open |-> open, lock |-> lock,
     success_count |-> sc, error_count |-> ec, dup_keys |-> dups,
     ids |-> ids, aborted |-> aborted]

\* One iteration of "for student in data".
ImportOne(st, student) ==
    IF student.kind # "object"
    THEN \* "name" in 42 raises TypeError, caught around the whole block
         [st EXCEPT !.aborted = TRUE]
    ELSE IF student.name # Absent /\ student.student_id # Absent
    THEN LET r == add_student(st.rows, st.seq, st.lock, student.name,
                              student.student_id,
                              Get(student.course, "Other"),
                              GetGpa(student.gpa, GpaZero),
                              Get(student.email, ""))
         IN IF r.ok
            THEN [st EXCEPT !.rows = r.rows, !.seq = r.seq,
                            !.success_count = @ + 1,
                            !.ids = Append(@, r.newId)]
            ELSE [st EXCEPT !.open = @ + 1, !.lock = @ \/ r.holdsLock,
                            !.error_count = @ + 1,
                            !.dup_keys = IF r.msg = DupMsg
                                         THEN @ \cup {student.student_id}
                                         ELSE @]
    ELSE [st EXCEPT !.error_count = @ + 1]

\* The loop from element i on.  The calls follow one another without a
\* run of the interpreter's collector in between: a connection that one
\* iteration left open is still open in the next.
RECURSIVE ImportLoop(_, _, _)
ImportLoop(st, data, i) ==
    IF i > Len(data) \/ st.aborted
    THEN st
    ELSE ImportLoop(ImportOne(st, data[i]), data, i + 1)

----------------------------------------------------------------------------
(* What the last handler reported: the helper's (success, msg), the key it  *)
(* was called with (and the new key of an update), and the import's         *)
(* counters with the student ids of the elements that had a name and a      *)
(* student id and the student ids reported as duplicates.                   *)

Result(op, key, called, ok, msg) ==
    [op |-> op, key |-> key, new_key |-> key, called |-> called, ok |-> ok,
     msg |-> msg, success_count |-> 0, error_count |-> 0, n |-> 0,
     aborted |-> FALSE, valid_keys |-> {}, dup_keys |-> {}]

\* The effect of one helper call on the store and on the connections.
Commit(r) ==
    /\ r.seq <= MaxId
    /\ openConns + (IF r.conn = "open" THEN 1 ELSE 0) <= MaxOpenConns
    /\ students' = r.rows
    /\ sqlite_sequence' = r.seq
    /\ openConns' = openConns + (IF r.conn = "open" THEN 1 ELSE 0)
    /\ lockHeld' = (lockHeld \/ r.holdsLock)
    /\ assigned' = IF r.newId # 0 THEN Append(assigned, r.newId) ELSE assigned

----------------------------------------------------------------------------
(* Inputs *)

FormNames == {"Alice", ""}
FormIds == StudentIds \cup {""}
EditNames == {"Bob"}

ImportElements ==
    { JsonObject(0, "Alice", "S1", Absent, GpaAbsent, Absent),
      JsonObject(0, "Bob", Absent, Absent, GpaAbsent, Absent),
      JsonObject(0, None, "S2", Absent, GpaAbsent, Absent),
      JsonNumber }

\* The student ids of the elements that carry a name and a student id.
ValidKeys(data) ==
    {data[i].student_id : i \in {j \in DOMAIN data :
        /\ data[j].kind = "object"
        /\ data[j].name \notin {Absent, None}
        /\ data[j].student_id \notin {Absent, None}}}

RECURSIVE SeqsUpTo(_, _)
SeqsUpTo(S, n) ==
    IF n = 0 THEN {<<>>}
    ELSE LET shorter == SeqsUpTo(S, n - 1)
         IN shorter \cup {Append(q, x) : q \in shorter, x \in S}

\* json.load(uploaded_file): a list of elements, or a value that is no list.
Payloads ==
    {[isList |-> TRUE, items |-> q] : q \in SeqsUpTo(ImportElements, MaxBatch)}
    \cup {[isList |-> FALSE, items |-> <<>>]}

----------------------------------------------------------------------------
(* Handlers *)

Init ==
    /\ students = <<>>
    /\ sqlite_sequence = 0
    /\ openConns = 0
    /\ lockHeld = FALSE
    /\ confirm_clear = FALSE
    /\ assigned = <<>>
    /\ last = Result("init", "", FALSE, TRUE, "")

\* "Add Student" form submit.
AddStudentForm ==
    \E new_name \in FormNames, new_id \in FormIds :
        IF new_name # "" /\ new_id # ""
        THEN LET r == add_student(students, sqlite_sequence, lockHeld,
                                  new_name, new_id, "Other", GpaZero, "")
             IN /\ Commit(r)
                /\ last' = Result("add", new_id, TRUE, r.ok, r.msg)
                /\ UNCHANGED confirm_clear
        ELSE /\ last' = Result("add", new_id, FALSE, FALSE, RequiredMsg)
             /\ UNCHANGED <<students, sqlite_sequence, openConns, lockHeld,
                            confirm_clear, assigned>>

\* "Import Data" button with an uploaded file.
ImportData ==
    \E data \in Payloads :
        IF data.isList
        THEN LET st == ImportLoop(
                         ImportState(students, sqlite_sequence, openConns,
                                     lockHeld, 0, 0, {}, <<>>, FALSE),
                         data.items, 1)
             IN /\ st.seq <= MaxId
                /\ st.open <= MaxOpenConns
                /\ students' = st.rows
                /\ sqlite_sequence' = st.seq
                /\ openConns' = st.open
                /\ lockHeld' = st.lock
                /\ assigned' = assigned \o st.ids
                /\ last' = [Result("import", "", TRUE, ~st.aborted,
                                   IF st.aborted THEN ParseErrorMsg ELSE "")
                              EXCEPT !.success_count = st.success_count,
                                     !.error_count = st.error_count,
                                     !.valid_keys = ValidKeys(data.items),
                                     !.dup_keys = st.dup_keys,
                                     !.n = Len(data.items),
                                     !.aborted = st.aborted]
                /\ UNCHANGED confirm_clear
        ELSE /\ last' = Result("import", "", FALSE, FALSE, InvalidFormatMsg)
             /\ UNCHANGED <<students, sqlite_sequence, openConns, lockHeld,
                            confirm_clear, assigned>>

\* "Update Student" form submit.  The key is the select box value of the
\* frame the form was drawn from; students.db is shared by every session,
\* so the row may be gone when the statement runs.
UpdateStudentForm ==
    \E student_to_edit \in StudentIds, edit_name \in EditNames,
       edit_id \in StudentIds :
        LET r == update_student(students, sqlite_sequence, lockHeld,
                                student_to_edit, edit_name, edit_id,
                                "Other", GpaPi, "")
        IN /\ Commit(r)
           /\ last' = [Result("update", student_to_edit, TRUE, r.ok, r.msg)
                         EXCEPT !.new_key = edit_id]
           /\ UNCHANGED confirm_clear

\* "Delete Student" button; the select box gives None when the filtered
\* frame has no rows.
DeleteStudentButton ==
    \E student_to_delete \in StudentIds \cup {None} :
        LET r == delete_student(students, sqlite_sequence, lockHeld,
                                student_to_delete)
        IN /\ Commit(r)
           /\ last' = Result("delete", student_to_delete, TRUE, r.ok, r.msg)
           /\ UNCHANGED confirm_clear

\* A script run that only draws the page: get_all_students for the export
\* buttons and the table.
ViewStudents ==
    /\ last' = [Result("list", "", TRUE, TRUE, "")
                  EXCEPT !.n = Len(get_all_students(students))]
    /\ UNCHANGED <<students, sqlite_sequence, openConns, lockHeld,
                   confirm_clear, assigned>>

\* The Danger Zone is drawn only when the table has rows.
DangerZoneDrawn == get_all_students(students) # <<>>

\* "Clear All Student Data" button.
ClearAllButton ==
    /\ confirm_clear' = IF DangerZoneDrawn THEN TRUE ELSE confirm_clear
    /\ last' = Result("clear_all", "", DangerZoneDrawn, TRUE, "")
    /\ UNCHANGED <<students, sqlite_sequence, openConns, lockHeld, assigned>>

\* The confirmation buttons drawn without the confirm_clear test.
YesButtonDrawn_unguarded == DangerZoneDrawn

\* The run in which "Yes, Delete Everything" deletes: the button exists
\* only under the confirm_clear test.
YesButtonDrawn == DangerZoneDrawn /\ confirm_clear

\* "Yes, Delete Everything" button.
YesDeleteEverything ==
    IF YesButtonDrawn
    THEN LET r == clear_all(students, sqlite_sequence, lockHeld)
         IN /\ Commit(r)
            /\ confirm_clear' = IF r.ok THEN FALSE ELSE confirm_clear
            /\ last' = Result("yes", "", TRUE, r.ok, r.msg)
    ELSE /\ last' = Result("yes", "", FALSE, FALSE, "")
         /\ UNCHANGED <<students, sqlite_sequence, openConns, lockHeld,
                        confirm_clear, assigned>>

\* "Cancel" button.
CancelButton ==
    /\ confirm_clear' = IF YesButtonDrawn THEN FALSE ELSE confirm_clear
    /\ last' = Result("cancel", "", YesButtonDrawn, TRUE, "")
    /\ UNCHANGED <<students, sqlite_sequence, openConns, lockHeld, assigned>>

\* The interpreter's collector finalizes the connections whose close() an
\* exception skipped; a pending write transaction is rolled back.
CollectGarbage ==
    /\ openConns > 0
    /\ openConns' = 0
    /\ lockHeld' = FALSE
    /\ last' = Result("gc", "", FALSE, TRUE, "")
    /\ UNCHANGED <<students, sqlite_sequence, confirm_clear, assigned>>

Next ==
    \/ AddStudentForm
    \/ ImportData
    \/ UpdateStudentForm
    \/ DeleteStudentButton
    \/ ViewStudents
    \/ ClearAllButton
    \/ YesDeleteEverything
    \/ CancelButton
    \/ CollectGarbage

Spec == Init /\ [][Next]_vars

TypeOK ==
    /\ sqlite_sequence \in 0 .. MaxId
    /\ openConns \in 0 .. MaxOpenConns
    /\ lockHeld \in BOOLEAN
    /\ confirm_clear \in BOOLEAN
    /\ Len(students) <= MaxId

----------------------------------------------------------------------------
(* Properties *)

NoDuplicates(q) == \A i, j \in DOMAIN q : q[i] = q[j] => i = j
Range(q) == {q[i] : i \in DOMAIN q}
IdColumn(rows) == [i \in DOMAIN rows |-> rows[i].id]

\* C1: in every reachable state no two stored records have the same
\* student_id.
C1_UniqueStudentId ==
    \A i, j \in DOMAIN students :
        students[i].student_id = students[j].student_id => i = j

\* Two records are stored and an update that would have made their
\* student ids equal has just been refused.
C1_Witness ==
    /\ Len(students) = 2
    /\ last.op = "update"
    /\ last.msg = UniqueMsg

C3_SurrogateIdStable ==
    [][/\ NoDuplicates(assigned')
       /\ Ids(students') \ Ids(students) \subseteq Range(assigned') \ Range(assigned)
       /\ (last'.op = "update" => IdColumn(students') = IdColumn(students))]_vars

\* A record was inserted after an earlier record had been removed.
C3_Witness ==
    /\ last.op = "add"
    /\ last.ok
    /\ Len(assigned) > Len(students)
    /\ students # <<>>
    /\ students[Len(students)].id = assigned[Len(assigned)]

\* C4: an import of a list processes every element whatever the bad ones
\* are: success_count + error_count is the length of the list, and every
\* element that has a name and a student_id is in the table afterwards.
C4_ImportNeverAborts ==
    (last.op = "import" /\ last.called)
        => /\ last.success_count + last.error_count = last.n
           /\ last.valid_keys \subseteq Sids(students)

\* C5: add_student reports the duplicate-key outcome when, and only when,
\* the student_id was already in the table; every other failure is
\* reported differently; otherwise the record is stored.
C5_DuplicateKeyIff ==
    [][/\ (last'.op = "add" /\ last'.called)
            => /\ (last'.msg = DupMsg) <=> (last'.key \in Sids(students))
               /\ last'.ok <=> (last'.key \notin Sids(students))
               /\ last'.ok => last'.key \in Sids(students')
       /\ (last'.op = "import")
            => last'.dup_keys \subseteq Sids(students')]_vars

\* C6: exporting the table to JSON and importing that payload into an
\* empty store gives as many records, with the same name, student_id,
\* course, gpa and email.
C6_ExportImportRoundTrip ==
    FieldsOf(ImportLoop(ImportState(<<>>, 0, 0, FALSE, 0, 0, {}, <<>>, FALSE),
                        to_json(get_all_students(students)), 1).rows)
        = FieldsOf(students)

\* C7: update_student whose new student_id differs from the prior one and
\* is the student_id of another stored record fails with a storage error
\* and leaves the table as it was.
C7_UpdateCollisionRejected ==
    [][(/\ last'.op = "update"
        /\ last'.new_key # last'.key
        /\ last'.key \in Sids(students)
        /\ last'.new_key \in Sids(students))
        => (/\ ~last'.ok
            /\ last'.msg \in {UniqueMsg, LockedMsg}
            /\ students' = students)]_vars

\* An update of a stored record to the student id of the other stored
\* record has been refused by the UNIQUE constraint.
C7_Witness ==
    /\ last.op = "update"
    /\ ~last.ok
    /\ last.msg = UniqueMsg
    /\ {last.key, last.new_key} = Sids(students)
    /\ last.key # last.new_key

C9_NoOpenConnection == openConns = 0

\* C10: the statement deleting all records runs only in a step that starts
\* with confirm_clear true; confirm_clear becomes true only by the press of
\* "Clear All Student Data" and is false after Cancel and after a
\* successful clear; a successful clear leaves the table empty and Cancel
\* leaves it as it was.
C10_TwoStepClear ==
    [][/\ (last'.op = "yes" /\ last'.called) => confirm_clear
       /\ (students' = <<>> /\ students # <<>> /\ last'.op \notin {"delete"})
            => (last'.op = "yes" /\ confirm_clear)
       /\ (confirm_clear' /\ ~confirm_clear) => last'.op = "clear_all"
       /\ (last'.op = "yes" /\ last'.called /\ last'.ok)
            => (students' = <<>> /\ ~confirm_clear')
       /\ (last'.op = "cancel" /\ last'.called)
            => (students' = students /\ ~confirm_clear')]_vars

\* "Yes, Delete Everything" has just emptied a table that had records.
C10_Witness ==
    /\ last.op = "yes"
    /\ last.ok
    /\ students = <<>>
    /\ assigned # <<>>
    /\ ~confirm_clear

====
